---- MODULE Spec2Model ----
(***************************************************************************)
(* Model of bin/imgProcessing.py: background removal (explicit and         *)
(* estimated, the latter through a process pool), registration, the        *)
(* per-field-of-view stage sequence of cli, and the export of planes.      *)
(*                                                                         *)
(* An image plane img._data[r, ch, z, :, :] is modelled as a single row of *)
(* PlaneWidth pixels; intensities are whole numbers 0..MaxPix standing for *)
(* the normalised float32 intensities of an ImageStack.  Indices r, ch, z  *)
(* are 0-based as in the source; TLA+ sequences are 1-based.               *)
(***************************************************************************)
EXTENDS Integers, Sequences, FiniteSets, TLC

\* ---------------------------------------------------------------- bounds
MaxRounds == 2
MaxChs == 4
MaxZ == 2
PlaneWidth == 2
MaxPix == 2
MaxThreads == 4
MaxPool == 2
WideThreads == 49
MaxChsPerReg == 3
MaxShift == 2
NumFovs == 2

\* ------------------------------------------------------ program constants
\* width of the significand of a Python float (IEEE-754 binary64)
Mant == 53
\* size = 100, the radius of the disk of the morphological opening
size == 100

Min2(a, b) == IF a <= b THEN a ELSE b
Max2(a, b) == IF a >= b THEN a ELSE b

\* ceil(a / b) for a >= 0, b > 0
CeilDiv(a, b) == (a + b - 1) \div b

\* ------------------------------------------------- binary64 arithmetic
\* A positive float is [m |-> bits, e |-> exp]: Mant bits, most significant
\* first and leading bit 1, of value (bits as a number) * 2^(exp - (Mant-1)).

\* The recursions are recursive functions, which TLC applies to evaluated
\* arguments.
Bit == {0, 1}

BitsToNat[b \in Seq(Bit)] ==
    IF Len(b) = 0 THEN 0
    ELSE 2 * BitsToNat[SubSeq(b, 1, Len(b) - 1)] + b[Len(b)]

NatToBits[n \in Nat] ==
    IF n = 0 THEN <<>> ELSE NatToBits[n \div 2] \o <<n % 2>>

\* number of doublings of a that still fit under b (a <= b)
Doublings[a \in Nat, b \in Nat] ==
    IF 2 * a <= b THEN 1 + Doublings[2 * a, b] ELSE 0

\* number of doublings a needs to reach b
Halvings[a \in Nat, b \in Nat] ==
    IF a >= b THEN 0 ELSE 1 + Halvings[2 * a, b]

Pow2[k \in Nat] == IF k = 0 THEN 1 ELSE 2 * Pow2[k - 1]

\* k further quotient bits of rem / d by long division (rem < d)
DivBits[rem \in Nat, d \in Nat, k \in Nat] ==
    IF k = 0 THEN <<>>
    ELSE IF 2 * rem >= d THEN <<1>> \o DivBits[2 * rem - d, d, k - 1]
         ELSE <<0>> \o DivBits[2 * rem, d, k - 1]

\* the remainder left after those k bits
DivRem[rem \in Nat, d \in Nat, k \in Nat] ==
    IF k = 0 THEN rem
    ELSE IF 2 * rem >= d THEN DivRem[2 * rem - d, d, k - 1]
         ELSE DivRem[2 * rem, d, k - 1]

\* bits + 1; one bit longer when every bit was 1
IncBits[b \in Seq(Bit)] ==
    IF Len(b) = 0 THEN <<1>>
    ELSE IF b[Len(b)] = 0 THEN [b EXCEPT ![Len(b)] = 1]
         ELSE IncBits[SubSeq(b, 1, Len(b) - 1)] \o <<0>>

\* round-to-nearest, ties-to-even, of kept bits given the discarded part:
\* guard is the first discarded bit, sticky says another discarded bit is set
Carried(kept, inc, e) ==
    IF Len(inc) > Len(kept)
    THEN [m |-> SubSeq(inc, 1, Len(kept)), e |-> e + 1]
    ELSE [m |-> inc, e |-> e]

RoundEven(kept, e, guard, sticky) ==
    IF guard = 1 /\ (sticky \/ kept[Len(kept)] = 1)
    THEN Carried(kept, IncBits[kept], e)
    ELSE [m |-> kept, e |-> e]

\* nn / tt for tt <= nn < 2 * tt, times 2^e, from the quotient's first Mant
\* bits and the remainder left after them
FQuotient(nn, tt, e, rem) ==
    RoundEven(<<1>> \o DivBits[nn - tt, tt, Mant - 1], e,
              IF 2 * rem >= tt THEN 1 ELSE 0,
              (2 * rem # tt) /\ (rem # 0))

FScaled(nn, tt, e) == FQuotient(nn, tt, e, DivRem[nn - tt, tt, Mant - 1])

\* n / t of two positive ints, correctly rounded (Python true division)
FDiv(n, t) ==
    IF n >= t
    THEN FScaled(n, t * Pow2[Doublings[t, n]], Doublings[t, n])
    ELSE FScaled(n * Pow2[Halvings[n, t]], t, 0 - Halvings[n, t])

\* bits * i, by schoolbook multiplication from the least significant bit
MulBits[b \in Seq(Bit), i \in Nat, carry \in Nat] ==
    IF Len(b) = 0 THEN NatToBits[carry]
    ELSE MulBits[SubSeq(b, 1, Len(b) - 1), i, (b[Len(b)] * i + carry) \div 2]
         \o <<(b[Len(b)] * i + carry) % 2>>

\* the exact product prod * 2^(e - (Mant-1)) rounded to Mant bits
FRound(prod, e) ==
    RoundEven(SubSeq(prod, 1, Mant), e + (Len(prod) - Mant),
              IF Len(prod) > Mant THEN prod[Mant + 1] ELSE 0,
              \E j \in (Mant + 2)..Len(prod) : prod[j] = 1)

\* f * i for a positive int i, correctly rounded
FMul(f, i) == FRound(MulBits[f.m, i, 0], f.e)

\* int(f): truncation of a positive float
FTrunc(f) == IF f.e < 0 THEN 0 ELSE BitsToNat[SubSeq(f.m, 1, f.e + 1)]

\* ------------------------------------------------------------ image stacks
\* An ImageStack: num_rounds, num_chs, num_zplanes and the array xarray.data,
\* a function from <<r, ch, z>> to a plane (a row of PlaneWidth pixels).
Index(R, C, Z) == (0..(R - 1)) \X (0..(C - 1)) \X (0..(Z - 1))

\* A synthetic stack: the intensity at (r, ch, z, x) is fixed by the seed sd.
Stack(R, C, Z, sd) ==
    [num_rounds |-> R, num_chs |-> C, num_zplanes |-> Z,
     data |-> [t \in Index(R, C, Z) |->
                 [x \in 1..PlaneWidth |->
                    (sd[1] * (t[1] * C + t[2]) + t[3] + sd[2] * x + sd[3])
                        % (MaxPix + 1)]]]

\* the value of a view that is not configured (Python's None)
NoStack == [num_rounds |-> 0, num_chs |-> 0, num_zplanes |-> 0, data |-> <<>>]

Seeds == (0..1) \X (0..1) \X (0..MaxPix)
BgSeeds == (0..1) \X {0} \X (0..MaxPix)

SubPlane(p, q) == [x \in 1..Len(p) |-> p[x] - q[x]]

\* a faulty variant: the clamp left out
NoClamp(p) == p

\* a[a < 0] = 0
ClampNeg(p) == [x \in 1..Len(p) |-> IF p[x] < 0 THEN 0 ELSE p[x]]

\* ------------------------------------------------------------ morphology
SetMin(S) == CHOOSE m \in S : \A n \in S : m <= n
SetMax(S) == CHOOSE m \in S : \A n \in S : m >= n

\* the pixels of a row of w pixels under disk(rad) centred at x; pixels
\* outside the image are ignored (cv2's default border for morphology)
Footprint(x, w, rad) == {j \in 1..w : j - x <= rad /\ x - j <= rad}

Erode(p, rad) ==
    [x \in 1..Len(p) |-> SetMin({p[j] : j \in Footprint(x, Len(p), rad)})]

Dilate(p, rad) ==
    [x \in 1..Len(p) |-> SetMax({p[j] : j \in Footprint(x, Len(p), rad)})]

\* cv2.morphologyEx(plane, cv2.MORPH_OPEN, disk(rad)): erosion, then dilation
MorphologyOpen(p, rad) == Dilate(Erode(p, rad), rad)

\* morph_open(rchs, image, size): for each (r, ch) of the chunk, in order,
\* the z-stack of opened planes
morph_open(chunk, image, rad) ==
    [j \in 1..Len(chunk) |->
        [z \in 0..(image.num_zplanes - 1) |->
            MorphologyOpen(image.data[<<chunk[j][1], chunk[j][2], z>>], rad)]]

\* ------------------------------------------------------------ chunking
\* rchs = [(r, ch) for r in range(num_rounds) for ch in range(num_chs)]
RoundChannelPairs(image) ==
    [k \in 1..(image.num_rounds * image.num_chs) |->
        <<(k - 1) \div image.num_chs, (k - 1) % image.num_chs>>]

\* a faulty variant: chunks of floor(n / threads) pairs, the last one taking the rest
RangeBoundLastAbsorbs(n, threads, i) ==
    IF i = threads THEN n ELSE (n \div threads) * i

\* ranges[i] = int((len(rchs) / num_threads) * i), in float arithmetic
RangeBound(n, threads, i) ==
    IF i = 0 THEN 0 ELSE FTrunc(FMul(FDiv(n, threads), i))

ranges(n, threads) == [i \in 1..(threads + 1) |-> RangeBound(n, threads, i - 1)]

\* the Python slice s[a:b] for 0 <= a, 0 <= b
Slice(s, a, b) == SubSeq(s, a + 1, Min2(b, Len(s)))

\* chunked_rchs = [rchs[ranges[i] : ranges[i + 1]] for i in range(len(ranges[:-1]))]
ChunkOf(rch, rg, i) == Slice(rch, rg[i], rg[i + 1])

Chunked(rch, rg) == [i \in 1..(Len(rg) - 1) |-> ChunkOf(rch, rg, i)]

\* ------------------------------------------------------------------ state
VARIABLES
    pc,            \* where the background-removal call is
    img,           \* the target stack, mutated in place
    img0,          \* the target stack as it was when the call was made
    bg,            \* the explicit background stack, or NoStack
    bg0,           \* the background stack as it was when the call was made
    num_threads,   \* num_threads of subtract_background_estimate
    max_workers,   \* worker processes of the ProcessPoolExecutor
    chunked_rchs,  \* the chunks dispatched, one per future
    futures,       \* per chunk: state and value of the pool's future
    results,       \* results = [x for x in poolMap]
    pos            \* loop position: (r, ch) when subtracting, (i, j) when merging

bgVars == <<pc, img, img0, bg, bg0, num_threads, max_workers, chunked_rchs,
            futures, results, pos>>

\* ---- registration (register_primary)
VARIABLES
    reg_pc,        \* where the register_primary call is
    prim,          \* the primary stack being registered
    prim0,         \* the primary stack as it was when the call was made
    reg_img,       \* the registration stack
    chs_per_reg,   \* primary channels per registration image
    shifts,        \* shifts[(r, ch)] of the registration planes
    tforms,        \* tforms[(r, ch)], the 4x4 matrices
    rpos           \* (r, ch) of the primary loop

regVars == <<reg_pc, prim, prim0, reg_img, chs_per_reg, shifts, tforms, rpos>>

\* ---- the run of cli over the fields of view
VARIABLES
    config,        \* the arguments of cli
    shape,         \* (rounds, channels, z-planes) of the experiment's stacks
    fov,           \* position of "for fov in exp.keys()", from 1
    stage,         \* the stage of cli the current field of view is at
    log,           \* what has been applied to which view, in order
    files,         \* the output directory: file name -> what was written
    writes,        \* every tiff.imsave call, in order
    hashes         \* tile file -> the content saveExp hashed

pipeVars == <<config, shape, fov, stage, log, files, writes, hashes>>

otherVars == <<regVars, pipeVars>>

vars == <<bgVars, regVars, pipeVars>>

\* the state of the variables of a part of the program that is not running
IdleBg ==
    /\ pc = "idle"
    /\ img = NoStack
    /\ img0 = NoStack
    /\ bg = NoStack
    /\ bg0 = NoStack
    /\ num_threads = 1
    /\ max_workers = 1
    /\ chunked_rchs = <<>>
    /\ futures = <<>>
    /\ results = <<>>
    /\ pos = <<0, 0>>

IdlePipe ==
    /\ config = <<>>
    /\ shape = <<1, 1, 1>>
    /\ fov = 1
    /\ stage = "idle"
    /\ log = <<>>
    /\ files = <<>>
    /\ writes = <<>>
    /\ hashes = <<>>

IdleReg ==
    /\ reg_pc = "idle"
    /\ prim = NoStack
    /\ prim0 = NoStack
    /\ reg_img = NoStack
    /\ chs_per_reg = 1
    /\ shifts = <<>>
    /\ tforms = <<>>
    /\ rpos = <<0, 0>>

\* ---------------------------------------------- explicit background removal
\* a faulty variant: the background's first z-plane subtracted from every z-plane
subtract_pair_flat(image, background, r, ch) ==
    [image EXCEPT !.data =
        [t \in DOMAIN image.data |->
            IF t[1] = r /\ t[2] = ch
            THEN ClampNeg(SubPlane(image.data[t],
                     background.data[<<r, ch % background.num_chs, 0>>]))
            ELSE image.data[t]]]

\* lines 124-126: one iteration of the (r, ch) loop of subtract_background
subtract_pair(image, background, r, ch) ==
    [image EXCEPT !.data =
        [t \in DOMAIN image.data |->
            IF t[1] = r /\ t[2] = ch
            THEN ClampNeg(SubPlane(image.data[t],
                     background.data[<<r, ch % background.num_chs, t[3]>>]))
            ELSE image.data[t]]]

\* the (r, ch) after pos in "for r ... for ch ..."
NextPair(image, p) ==
    IF p[2] + 1 < image.num_chs THEN <<p[1], p[2] + 1>> ELSE <<p[1] + 1, 0>>

CallSubtractBackground ==
    /\ pc = "call"
    /\ bg # NoStack
    /\ pc' = "subtract"
    /\ pos' = <<0, 0>>
    /\ UNCHANGED <<img, img0, bg, bg0, num_threads, max_workers, chunked_rchs,
                   futures, results>>
    /\ UNCHANGED otherVars

\* bg_dat[r, ...] with r beyond the background's rounds is an IndexError
SubtractRaise ==
    /\ pc = "subtract"
    /\ pos[1] >= bg.num_rounds
    /\ pc' = "raised"
    /\ UNCHANGED <<img, img0, bg, bg0, num_threads, max_workers, chunked_rchs,
                   futures, results, pos>>
    /\ UNCHANGED otherVars

SubtractStep ==
    /\ pc = "subtract"
    /\ pos[1] < bg.num_rounds
    /\ img' = subtract_pair(img, bg, pos[1], pos[2])
    /\ pos' = NextPair(img, pos)
    /\ pc' = IF NextPair(img, pos)[1] < img.num_rounds THEN "subtract" ELSE "returned"
    /\ UNCHANGED <<img0, bg, bg0, num_threads, max_workers, chunked_rchs,
                   futures, results>>
    /\ UNCHANGED otherVars

\* --------------------------------------------- estimated background removal
Queued == [state |-> "queued", value |-> <<>>]

\* lines 149-155 and the dispatch of pool.map
CallEstimate ==
    /\ pc = "call"
    /\ bg = NoStack
    /\ chunked_rchs' = Chunked(RoundChannelPairs(img),
                               ranges(img.num_rounds * img.num_chs, num_threads))
    /\ futures' = [k \in 1..num_threads |-> Queued]
    /\ pc' = "pool"
    /\ UNCHANGED <<img, img0, bg, bg0, num_threads, max_workers, results, pos>>
    /\ UNCHANGED otherVars

Running == {k \in DOMAIN futures : futures[k].state = "running"}

\* the work items in the executor's call queue, taken by no worker yet
Prefetched == {k \in DOMAIN futures : futures[k].state = "prefetched"}

\* The executor moves the next pending work item into its call queue, which
\* holds max_workers + 1 items; from then on the future cannot be cancelled.
Prefetch(k) ==
    /\ pc \in {"pool", "shutdown"}
    /\ futures[k].state = "queued"
    /\ \A j \in 1..(k - 1) : futures[j].state # "queued"
    /\ Cardinality(Prefetched) < max_workers + 1
    /\ futures' = [futures EXCEPT ![k].state = "prefetched"]
    /\ UNCHANGED <<pc, img, img0, bg, bg0, num_threads, max_workers,
                   chunked_rchs, results, pos>>
    /\ UNCHANGED otherVars

\* A worker process takes the next work item of the call queue, also while
\* the exception of another item unwinds the with block; it is handed a
\* pickled copy of the array, on which it runs morph_open.
StartTask(k) ==
    /\ pc \in {"pool", "shutdown"}
    /\ futures[k].state = "prefetched"
    /\ \A j \in 1..(k - 1) : futures[j].state # "prefetched"
    /\ Cardinality(Running) < max_workers
    /\ futures' = [futures EXCEPT ![k] =
                     [state |-> "running",
                      value |-> morph_open(chunked_rchs[k], img, size)]]
    /\ UNCHANGED <<pc, img, img0, bg, bg0, num_threads, max_workers,
                   chunked_rchs, results, pos>>
    /\ UNCHANGED otherVars

\* the worker returns the list morphed
FinishTask(k) ==
    /\ pc \in {"pool", "shutdown"}
    /\ futures[k].state = "running"
    /\ futures' = [futures EXCEPT ![k].state = "done"]
    /\ UNCHANGED <<pc, img, img0, bg, bg0, num_threads, max_workers,
                   chunked_rchs, results, pos>>
    /\ UNCHANGED otherVars

\* the worker raises
FailTask(k) ==
    /\ pc \in {"pool", "shutdown"}
    /\ futures[k].state = "running"
    /\ futures' = [futures EXCEPT ![k] = [state |-> "raised", value |-> <<>>]]
    /\ UNCHANGED <<pc, img, img0, bg, bg0, num_threads, max_workers,
                   chunked_rchs, results, pos>>
    /\ UNCHANGED otherVars

\* a faulty variant: the merge starts as soon as the first chunk's result is in
ResultsReadyFirst ==
    /\ futures[1].state = "done"
    /\ \A k \in DOMAIN futures : futures[k].state \in {"running", "done"}

\* line 162 completes once the iteration over poolMap has yielded every result
ResultsReady == \A k \in DOMAIN futures : futures[k].state = "done"

\* the positions (i, j) the merge loop visits, and the one after p
MergePositions ==
    {q \in (1..Len(chunked_rchs)) \X (1..(img.num_rounds * img.num_chs)) :
        q[2] <= Len(chunked_rchs[q[1]])}

Before(p, q) == p[1] < q[1] \/ (p[1] = q[1] /\ p[2] < q[2])

After(p) == {q \in MergePositions : Before(p, q)}

NextPosition(p) == CHOOSE q \in After(p) : \A o \in After(p) : o = q \/ Before(q, o)

CollectResults ==
    /\ pc = "pool"
    /\ ResultsReady
    /\ results' = [k \in DOMAIN futures |-> futures[k].value]
    /\ pc' = IF After(<<0, 0>>) = {} THEN "returned" ELSE "merge"
    /\ pos' = IF After(<<0, 0>>) = {} THEN <<0, 0>> ELSE NextPosition(<<0, 0>>)
    /\ UNCHANGED <<img, img0, bg, bg0, num_threads, max_workers, chunked_rchs,
                   futures>>
    /\ UNCHANGED otherVars

\* The iteration over poolMap re-raises the exception of the first future that
\* failed, and the generator starts cancelling the futures it has not yielded,
\* the last one first: this step is the re-raise and the cancel call on the
\* last future. Only a pending future is cancelled by the call.
WorkerError ==
    /\ pc = "pool"
    /\ \E k \in DOMAIN futures :
          /\ futures[k].state = "raised"
          /\ \A j \in 1..(k - 1) : futures[j].state = "done"
    /\ pc' = "shutdown"
    /\ futures' = [k \in DOMAIN futures |->
                     IF k = Len(futures) /\ futures[k].state = "queued"
                     THEN [state |-> "cancelled", value |-> <<>>]
                     ELSE futures[k]]
    /\ UNCHANGED <<img, img0, bg, bg0, num_threads, max_workers, chunked_rchs,
                   results, pos>>
    /\ UNCHANGED otherVars

\* The next cancel call of the generator that finds its future pending. The
\* calls go from the last future backwards and the executor takes pending
\* items from the front, so that future is the last pending one; a call on a
\* future in the call queue, running or finished changes nothing.
CancelFuture(k) ==
    /\ pc = "shutdown"
    /\ futures[k].state = "queued"
    /\ \A j \in (k + 1)..Len(futures) : futures[j].state # "queued"
    /\ futures' = [futures EXCEPT ![k] = [state |-> "cancelled", value |-> <<>>]]
    /\ UNCHANGED <<pc, img, img0, bg, bg0, num_threads, max_workers,
                   chunked_rchs, results, pos>>
    /\ UNCHANGED otherVars

\* the cancel calls done, the with block is left once every work item that
\* was not cancelled has been run; the exception leaves
\* subtract_background_estimate
PoolExit ==
    /\ pc = "shutdown"
    /\ \A k \in DOMAIN futures : futures[k].state # "queued"
    /\ Prefetched = {}
    /\ Running = {}
    /\ pc' = "raised"
    /\ UNCHANGED <<img, img0, bg, bg0, num_threads, max_workers, chunked_rchs,
                   futures, results, pos>>
    /\ UNCHANGED otherVars

\* lines 168-169: subtract the estimate of (r, ch) and clamp
merge_pair(image, r, ch, estimate) ==
    [image EXCEPT !.data =
        [t \in DOMAIN image.data |->
            IF t[1] = r /\ t[2] = ch
            THEN ClampNeg(SubPlane(image.data[t], estimate[t[3]]))
            ELSE image.data[t]]]

\* lines 165-169: one iteration of the merge loop
MergeStep ==
    /\ pc = "merge"
    /\ img' = merge_pair(img, chunked_rchs[pos[1]][pos[2]][1],
                         chunked_rchs[pos[1]][pos[2]][2], results[pos[1]][pos[2]])
    /\ pc' = IF After(pos) = {} THEN "returned" ELSE "merge"
    /\ pos' = IF After(pos) = {} THEN pos ELSE NextPosition(pos)
    /\ UNCHANGED <<img0, bg, bg0, num_threads, max_workers, chunked_rchs,
                   futures, results>>
    /\ UNCHANGED otherVars

\* ------------------------------------------------------------ specifications
Shapes == (1..MaxRounds) \X (1..MaxChs) \X (1..MaxZ)

InitCall(image, background, threads, workers) ==
    /\ pc = "call"
    /\ img = image
    /\ img0 = image
    /\ bg = background
    /\ bg0 = background
    /\ num_threads = threads
    /\ max_workers = workers
    /\ chunked_rchs = <<>>
    /\ futures = <<>>
    /\ results = <<>>
    /\ pos = <<0, 0>>
    /\ IdleReg
    /\ IdlePipe

\* a call of either mode on a synthetic stack
InitBg ==
    \E sh \in Shapes, sd \in Seeds :
       \/ \E bR \in 1..MaxRounds, bC \in 1..MaxChs, bs \in BgSeeds :
             InitCall(Stack(sh[1], sh[2], sh[3], sd),
                      Stack(bR, bC, sh[3], bs), 1, 1)
       \/ \E th \in 1..MaxThreads, w \in 1..MaxPool :
             InitCall(Stack(sh[1], sh[2], sh[3], sd), NoStack, th, w)

NextEstimate ==
    \/ CallEstimate
    \/ \E k \in DOMAIN futures : Prefetch(k)
    \/ \E k \in DOMAIN futures : StartTask(k)
    \/ \E k \in DOMAIN futures : FinishTask(k)
    \/ CollectResults
    \/ MergeStep

NextFaults ==
    \/ \E k \in DOMAIN futures : FailTask(k)
    \/ WorkerError
    \/ \E k \in DOMAIN futures : CancelFuture(k)
    \/ PoolExit

NextBg ==
    \/ CallSubtractBackground
    \/ SubtractRaise
    \/ SubtractStep
    \/ NextEstimate
    \/ NextFaults

SpecBg == InitBg /\ [][NextBg]_vars

\* estimated removal with many more workers requested than there are pairs,
\* on a host with a single worker process
WideSeeds == {<<1, 1, 1>>}

InitWide ==
    \E R \in 1..MaxRounds, C \in 1..MaxChs, sd \in WideSeeds, th \in 1..WideThreads :
        InitCall(Stack(R, C, 1, sd), NoStack, th, 1)

SpecWide == InitWide /\ [][NextEstimate]_vars

\* ------------------------------------------------------------ registration
\* Here the data of a plane-set (r, ch) is its displacement <<dz, dy, dx>>
\* from the common scene, in whole pixels: all that a translation estimate
\* reads and all that a translation changes.
Pairs(R, C) == (0..(R - 1)) \X (0..(C - 1))

DisplacedStack(R, C, sd) ==
    [num_rounds |-> R, num_chs |-> C, num_zplanes |-> 1,
     data |-> [q \in Pairs(R, C) |->
                 <<sd[1], (sd[2] * q[1] + q[2]) % (MaxShift + 1),
                   (q[1] + sd[3] * q[2]) % (MaxShift + 1)>>]]

RegSeeds == (0..1) \X (0..1) \X (0..1)

\* phase_cross_correlation(reference, moving): the shift, one component per
\* axis (z, y, x), that registers moving with reference
phase_cross_correlation(reference, moving) ==
    [i \in 1..3 |-> reference[i] - moving[i]]

\* lines 85-90
compute_shifts(reg) ==
    [q \in DOMAIN reg.data |->
        phase_cross_correlation(reg.data[<<0, 0>>], reg.data[q])]

\* lines 96-100: np.diag([1.0] * 4) with tform[i, 3] = shift[i] for i in 1, 2
\* (0-based; the z component, shift[0], is left out)
build_tform(shift) ==
    [i \in 0..3, j \in 0..3 |->
        IF i = j THEN 1
        ELSE IF j = 3 /\ i \in {1, 2} THEN shift[i + 1]
        ELSE 0]

\* np.linalg.inv of a translation matrix
inv_translation(tf) ==
    [i \in 0..3, j \in 0..3 |->
        IF j = 3 /\ i # 3 THEN 0 - tf[i, j] ELSE tf[i, j]]

\* ndimage.affine_transform(a, m): output[o] = a[m o], so content displaced
\* by d comes out displaced by d minus the translation of m
affine_transform(disp, m) == [i \in 1..3 |-> disp[i] - m[i - 1, 3]]

\* a faulty variant: ch % chs_per_reg for ch // chs_per_reg
tform_key_mod(r, ch, k) == <<r, ch % k>>

\* the key (r, ch // chs_per_reg) of line 107
tform_key(r, ch, k) == <<r, ch \div k>>

CallRegister ==
    /\ reg_pc = "call"
    /\ shifts' = compute_shifts(reg_img)
    /\ tforms' = [q \in DOMAIN reg_img.data |-> build_tform(compute_shifts(reg_img)[q])]
    /\ reg_pc' = "register"
    /\ rpos' = <<0, 0>>
    /\ UNCHANGED <<prim, prim0, reg_img, chs_per_reg>>
    /\ UNCHANGED <<bgVars, pipeVars>>

\* tforms[(r, ch // chs_per_reg)] with no such key is a KeyError
RegisterRaise ==
    /\ reg_pc = "register"
    /\ tform_key(rpos[1], rpos[2], chs_per_reg) \notin DOMAIN tforms
    /\ reg_pc' = "raised"
    /\ UNCHANGED <<prim, prim0, reg_img, chs_per_reg, shifts, tforms, rpos>>
    /\ UNCHANGED <<bgVars, pipeVars>>

\* lines 105-109: one iteration of the (r, ch) loop
RegisterStep ==
    /\ reg_pc = "register"
    /\ tform_key(rpos[1], rpos[2], chs_per_reg) \in DOMAIN tforms
    /\ prim' = [prim EXCEPT !.data[rpos] =
                  affine_transform(prim.data[rpos],
                      inv_translation(tforms[tform_key(rpos[1], rpos[2], chs_per_reg)]))]
    /\ rpos' = NextPair(prim, rpos)
    /\ reg_pc' = IF NextPair(prim, rpos)[1] < prim.num_rounds
                 THEN "register" ELSE "returned"
    /\ UNCHANGED <<prim0, reg_img, chs_per_reg, shifts, tforms>>
    /\ UNCHANGED <<bgVars, pipeVars>>

InitReg ==
    /\ IdleBg
    /\ IdlePipe
    /\ \E R \in 1..MaxRounds, C \in 1..MaxChs, rR \in 1..MaxRounds,
          rC \in 1..MaxChs, k \in 1..MaxChsPerReg, sd \in RegSeeds, rs \in RegSeeds :
          /\ reg_pc = "call"
          /\ prim = DisplacedStack(R, C, sd)
          /\ prim0 = DisplacedStack(R, C, sd)
          /\ reg_img = DisplacedStack(rR, rC, rs)
          /\ chs_per_reg = k
          /\ shifts = <<>>
          /\ tforms = <<>>
          /\ rpos = <<0, 0>>

NextReg == CallRegister \/ RegisterRaise \/ RegisterStep

SpecReg == InitReg /\ [][NextReg]_vars

\* ------------------------------------------------------------ cli and export
\* An optional numeric argument is <<>> (None) or <<v>>; an optional view name
\* is "" (None) or the name.
OptionValues == {<<>>, <<0>>, <<3>>}

\* a faulty variant: "is not None" for truth
IsGiven(v) == v # <<>>

\* "if v:" for an optional number
Truthy(v) == v # <<>> /\ v # <<0>>

\* "if name:" for an optional view name
Named(name) == name # ""

output_dir == "3_processed/"

FovName(i) == "fov_00" \o ToString(i - 1)

\* exp[fov].image_types: primary, one auxiliary view that no argument names,
\* and the views the arguments name
ViewNames(cfg) ==
    <<"primary", "nuclei">>
    \o (IF Named(cfg.anchor_name) THEN <<cfg.anchor_name>> ELSE <<>>)
    \o (IF Named(cfg.background_name) THEN <<cfg.background_name>> ELSE <<>>)
    \o (IF Named(cfg.aux_name) THEN <<cfg.aux_name>> ELSE <<>>)

\* a faulty variant: the z-plane left out of the name
FileNameNoZ(loc, prefix, c, r, z) ==
    loc \o prefix \o "-c" \o ToString(c) \o "-r" \o ToString(r) \o ".tiff"

\* "{}{}-c{}-r{}-z{}.tiff".format(loc, prefix, c, r, z)
FileName(loc, prefix, c, r, z) ==
    loc \o prefix \o "-c" \o ToString(c) \o "-r" \o ToString(r)
        \o "-z" \o ToString(z) \o ".tiff"

\* the k-th plane (r, c, z) of "for r ... for c ... for z ..."
PlaneAt(sh, k) ==
    <<(k - 1) \div (sh[2] * sh[3]), ((k - 1) \div sh[3]) % sh[2], (k - 1) % sh[3]>>

\* saveImg(loc, prefix, img): the tiff.imsave calls, in order; what is written
\* is plane (r, c, z) of view `view` of field of view f after `hist`
saveImg(loc, view, f, sh, hist) ==
    [k \in 1..(sh[1] * sh[2] * sh[3]) |->
        [file |-> FileName(loc, view \o "-" \o FovName(f),
                           PlaneAt(sh, k)[2], PlaneAt(sh, k)[1], PlaneAt(sh, k)[3]),
         view |-> view, fov |-> f, plane |-> PlaneAt(sh, k), hist |-> hist]]

LastWrite(ws, name) ==
    ws[SetMax({i \in 1..Len(ws) : ws[i].file = name})]

\* the directory after the writes ws: a later write replaces an earlier one
Written(dir, ws) ==
    [name \in DOMAIN dir \cup {ws[i].file : i \in 1..Len(ws)} |->
        IF \E i \in 1..Len(ws) : ws[i].file = name
        THEN [view |-> LastWrite(ws, name).view, fov |-> LastWrite(ws, name).fov,
              plane |-> LastWrite(ws, name).plane, hist |-> LastWrite(ws, name).hist]
        ELSE dir[name]]

Event(f, st, view) == [fov |-> f, stage |-> st, view |-> view]

\* the stage names applied so far to `view` of field of view f
Trace(lg, f, view) ==
    LET Mine(e) == e.fov = f /\ e.view = view
        mine == SelectSeq(lg, Mine)
    IN [i \in 1..Len(mine) |-> mine[i].stage]

\* a stage applied to the primary stack and, if also_anchor, to the anchor
Applied(st, also_anchor) ==
    log \o <<Event(fov, st, "primary")>>
        \o (IF also_anchor THEN <<Event(fov, st, "anchor")>> ELSE <<>>)

Step(from, to, lg) ==
    /\ stage = from
    /\ stage' = to
    /\ log' = lg
    /\ UNCHANGED <<config, shape, fov, files, writes, hashes>>
    /\ UNCHANGED <<bgVars, regVars>>

\* lines 323-331: the next field of view's stacks are fetched
FetchFov ==
    /\ fov <= NumFovs
    /\ Step("fetch", "background", log)

\* lines 333-348
BackgroundStage ==
    Step("background", "high_pass", Applied("background", Named(config.anchor_name)))

\* lines 350-358
HighPassStage ==
    Step("high_pass", "deconvolve",
         IF Truthy(config.high_sigma)
         THEN Applied("high_pass", Named(config.anchor_name)) ELSE log)

\* lines 360-368
DeconvolveStage ==
    Step("deconvolve", "low_pass",
         IF Truthy(config.decon_sigma)
         THEN Applied("deconvolve", Named(config.anchor_name)) ELSE log)

\* lines 370-375: the low-pass filter is run on img only
LowPassStage ==
    Step("low_pass", "top_hat",
         IF Truthy(config.low_sigma) THEN Applied("low_pass", FALSE) ELSE log)

\* lines 377-382
TopHatStage ==
    Step("top_hat", "rolling_ball",
         IF Truthy(config.wth_rad)
         THEN Applied("top_hat", Named(config.anchor_name)) ELSE log)

\* lines 384-390
RollingBallStage ==
    Step("rolling_ball", "match_hist",
         IF Truthy(config.rolling_rad)
         THEN Applied("rolling_ball", Named(config.anchor_name)) ELSE log)

\* lines 392-401
MatchHistStage ==
    Step("match_hist", "register",
         IF config.match_hist
         THEN Applied("match_hist", Named(config.anchor_name)) ELSE log)

\* lines 403-407: register_primary is called on img only
RegisterStage ==
    Step("register", "clip_scale",
         IF Named(config.aux_name) THEN Applied("register", FALSE) ELSE log)

\* lines 409-424
ClipScaleStage ==
    Step("clip_scale", "save_primary",
         IF ~config.rescale
         THEN Applied("clip_scale", Named(config.anchor_name)) ELSE log)

ProcessingStages ==
    {"background", "high_pass", "deconvolve", "low_pass", "top_hat",
     "rolling_ball", "match_hist", "register", "clip_scale"}

\* a faulty variant: the failed field of view is skipped and the loop goes on
StageRaiseSkipsFov ==
    /\ stage \in ProcessingStages
    /\ stage' = "fetch"
    /\ fov' = fov + 1
    /\ UNCHANGED <<config, shape, log, files, writes, hashes>>
    /\ UNCHANGED <<bgVars, regVars>>

\* the condition under which the block of stage st makes its calls
Runs(st) ==
    CASE st = "background" -> TRUE
      [] st = "high_pass" -> Truthy(config.high_sigma)
      [] st = "deconvolve" -> Truthy(config.decon_sigma)
      [] st = "low_pass" -> Truthy(config.low_sigma)
      [] st = "top_hat" -> Truthy(config.wth_rad)
      [] st = "rolling_ball" -> Truthy(config.rolling_rad)
      [] st = "match_hist" -> config.match_hist
      [] st = "register" -> Named(config.aux_name)
      [] st = "clip_scale" -> ~config.rescale

\* the block of stage st makes a second call, on the anchor stack
CallsAnchor(st) ==
    Named(config.anchor_name) /\ st \notin {"low_pass", "register"}

\* A call of a stage raises: nothing catches it, cli ends. The call on the
\* primary stack raises, or, that one done, the call on the anchor stack.
StageRaise ==
    /\ stage \in ProcessingStages
    /\ Runs(stage)
    /\ \E on_anchor \in BOOLEAN :
          /\ on_anchor => CallsAnchor(stage)
          /\ log' = IF on_anchor
                    THEN log \o <<Event(fov, stage, "primary")>> ELSE log
    /\ stage' = "aborted"
    /\ UNCHANGED <<config, shape, fov, files, writes, hashes>>
    /\ UNCHANGED <<bgVars, regVars>>

\* line 428
SavePrimary ==
    /\ stage = "save_primary"
    /\ stage' = "save_views"
    /\ writes' = writes \o saveImg(output_dir, "primary", fov, shape,
                                   Trace(log, fov, "primary"))
    /\ files' = Written(files, saveImg(output_dir, "primary", fov, shape,
                                       Trace(log, fov, "primary")))
    /\ log' = log \o <<Event(fov, "export", "primary")>>
    /\ UNCHANGED <<config, shape, fov, hashes>>
    /\ UNCHANGED <<bgVars, regVars>>

\* lines 431-436, for one view: the processed anchor, or another view as it
\* was fetched; nothing for the primary view
save_view(view) ==
    IF view # "primary" /\ view # config.anchor_name
    THEN saveImg(output_dir, view, fov, shape, <<>>)
    ELSE IF view = config.anchor_name
         THEN saveImg(output_dir, view, fov, shape, Trace(log, fov, "anchor"))
         ELSE <<>>

\* the writes of "for view in exp[fov].image_types", views[n] onwards
save_views[n \in 1..6] ==
    IF n > Len(ViewNames(config)) THEN <<>>
    ELSE save_view(ViewNames(config)[n]) \o save_views[n + 1]

\* lines 431-438, and on to the next field of view
SaveViews ==
    /\ stage = "save_views"
    /\ stage' = "fetch"
    /\ fov' = fov + 1
    /\ writes' = writes \o save_views[1]
    /\ files' = Written(files, save_views[1])
    /\ log' = log \o (IF Named(config.anchor_name)
                      THEN <<Event(fov, "export", "anchor")>> ELSE <<>>)
    /\ UNCHANGED <<config, shape, hashes>>
    /\ UNCHANGED <<bgVars, regVars>>

\* line 441, saveExp(input_dir, output_dir): the hash of every tile file that
\* the metadata of a field of view names is refreshed
SaveExp ==
    /\ stage = "fetch"
    /\ fov > NumFovs
    /\ stage' = "done"
    /\ hashes' = [name \in DOMAIN files |-> files[name]]
    /\ UNCHANGED <<config, shape, fov, log, files, writes>>
    /\ UNCHANGED <<bgVars, regVars>>

\* the runs of cli over every configuration, on stacks of one round, one
\* channel and two z-planes
PipeShape == <<1, 1, 2>>

Configs ==
    [background_name : {"", "background"}, anchor_name : {"", "anchor"},
     aux_name : {"", "registration"},
     high_sigma : OptionValues, decon_sigma : OptionValues,
     low_sigma : OptionValues, wth_rad : OptionValues,
     rolling_rad : OptionValues, match_hist : BOOLEAN, rescale : BOOLEAN]

InitPipe ==
    /\ IdleBg
    /\ IdleReg
    /\ config \in Configs
    /\ shape = PipeShape
    /\ fov = 1
    /\ stage = "fetch"
    /\ log = <<>>
    /\ files = <<>>
    /\ writes = <<>>
    /\ hashes = <<>>

NextPipe ==
    \/ FetchFov
    \/ BackgroundStage
    \/ HighPassStage
    \/ DeconvolveStage
    \/ LowPassStage
    \/ TopHatStage
    \/ RollingBallStage
    \/ MatchHistStage
    \/ RegisterStage
    \/ ClipScaleStage
    \/ StageRaise
    \/ SavePrimary
    \/ SaveViews
    \/ SaveExp

SpecPipe == InitPipe /\ [][NextPipe]_vars

\* the runs of cli over stacks of every shape, for the configurations that
\* differ in the views they name and in the stages with a switch
ExportConfigs ==
    {cfg \in Configs :
        /\ cfg.high_sigma = <<>>
        /\ cfg.decon_sigma = <<>>
        /\ cfg.low_sigma = <<>>
        /\ cfg.wth_rad = <<>>
        /\ cfg.rolling_rad = <<>>}

InitExport ==
    /\ IdleBg
    /\ IdleReg
    /\ config \in ExportConfigs
    /\ shape \in Shapes
    /\ fov = 1
    /\ stage = "fetch"
    /\ log = <<>>
    /\ files = <<>>
    /\ writes = <<>>
    /\ hashes = <<>>

SpecExport == InitExport /\ [][NextPipe]_vars

\* ------------------------------------------------ claims: background removal
Pixels == 1..PlaneWidth

Explicit == bg # NoStack

Estimated == bg = NoStack

PairCount == img.num_rounds * img.num_chs

\* C1: after background removal in either mode, no pixel of any plane of the
\* returned stack is negative.
C1_NoNegativePixel ==
    pc = "returned" =>
        \A t \in DOMAIN img.data : \A x \in Pixels : img.data[t][x] >= 0

\* a returned stack in which the clamp has acted on some pixel
C1_Witness ==
    /\ pc = "returned"
    /\ Explicit
    /\ \E t \in DOMAIN img.data : \E x \in Pixels :
          img0.data[t][x] < bg.data[<<t[1], t[2] % bg.num_chs, t[3]>>][x]

\* the stack a sequential computation gives: from every plane of every
\* (round, channel) its own opening is subtracted, once
SequentialEstimate(image) ==
    [image EXCEPT !.data =
        [t \in DOMAIN image.data |->
            ClampNeg(SubPlane(image.data[t], MorphologyOpen(image.data[t], size)))]]

\* C2: for every worker count, estimated background subtraction returns the
\* stack the sequential computation gives.
C2_EqualsSequential ==
    (pc = "returned" /\ Estimated) => img = SequentialEstimate(img0)

\* C3: explicit subtraction with a background of the same round count and a
\* channel count n dividing the target's leaves every pixel of plane (r, c, z)
\* at max(0, original - background[r, c mod n, z]) and the background unchanged.
C3_ExplicitExact ==
    (/\ pc = "returned"
     /\ Explicit
     /\ bg0.num_rounds = img0.num_rounds
     /\ img0.num_chs % bg0.num_chs = 0)
    => /\ bg = bg0
       /\ DOMAIN img.data = DOMAIN img0.data
       /\ \A t \in DOMAIN img0.data : \A x \in Pixels :
             img.data[t][x] =
                Max2(0, img0.data[t][x]
                        - bg0.data[<<t[1], t[2] % bg0.num_chs, t[3]>>][x])

\* a returned stack whose channels wrapped around a two-channel background,
\* with a pixel clamped and a pixel left positive
C3_Witness ==
    /\ pc = "returned"
    /\ Explicit
    /\ bg0.num_rounds = img0.num_rounds
    /\ bg0.num_chs = 2
    /\ img0.num_chs = 4
    /\ img0.num_zplanes = 2
    /\ \E t \in DOMAIN img.data : \E x \in Pixels : img.data[t][x] > 0
    /\ \E t \in DOMAIN img.data : \E x \in Pixels :
          img0.data[t][x] < bg0.data[<<t[1], t[2] % 2, t[3]>>][x]

\* C7: explicit subtraction with a background whose channel count does not
\* divide the target's is rejected; no channel-wrapped result is produced.
C7_MismatchRejected ==
    (Explicit /\ img0.num_chs % bg0.num_chs # 0)
    => (pc # "returned" /\ img = img0)

Dispatched == pc \in {"pool", "merge", "returned"} /\ Estimated

ChunkLen(i) == Len(chunked_rchs[i])

\* the number of pairs in the chunks before chunk i
ChunkStart[i \in 1..(WideThreads + 2)] ==
    IF i = 1 THEN 0 ELSE ChunkStart[i - 1] + ChunkLen(i - 1)

\* chunk i is the run of the round-major pair list that follows chunk i - 1
Contiguous ==
    \A i \in 1..Len(chunked_rchs) :
        chunked_rchs[i] =
            SubSeq(RoundChannelPairs(img0), ChunkStart[i] + 1,
                   ChunkStart[i] + ChunkLen(i))

\* C9 as stated: num_threads contiguous chunks, every chunk but the last of
\* floor(N / T) pairs, the last one holding all the remaining pairs.
C9_LastAbsorbs ==
    Dispatched =>
        /\ Len(chunked_rchs) = num_threads
        /\ Contiguous
        /\ \A i \in 1..(num_threads - 1) : ChunkLen(i) = PairCount \div num_threads
        /\ ChunkStart[num_threads + 1] = PairCount

\* C9 as amended: num_threads contiguous chunks, consecutive from the start of
\* the round-major pair list, each of floor(N / T) or ceil(N / T) pairs, which
\* together hold every pair except possibly the last one.
C9_Balanced ==
    Dispatched =>
        /\ Len(chunked_rchs) = num_threads
        /\ Contiguous
        /\ \A i \in 1..num_threads :
              ChunkLen(i) \in {PairCount \div num_threads,
                               CeilDiv(PairCount, num_threads)}
        /\ ChunkStart[num_threads + 1] \in {PairCount - 1, PairCount}

\* chunks dispatched of which one before the last holds more than floor(N / T)
C9_Witness ==
    /\ Dispatched
    /\ num_threads > 1
    /\ \E i \in 1..(num_threads - 1) : ChunkLen(i) > PairCount \div num_threads

\* C10: during estimated subtraction the stack changes only in a step of the
\* coordinator taken after every dispatched future has returned its result
\* (no worker step changes it), and when a worker raises the stack is as it
\* was before the call.
C10_MergeAfterAllResults ==
    /\ [][(Estimated /\ img' # img) =>
            (pc = "merge" /\ \A k \in DOMAIN futures : futures[k].state = "done")]_vars
    /\ []((Estimated /\ pc \in {"shutdown", "raised"}) => img = img0)
    /\ []((Estimated /\ \E k \in DOMAIN futures : futures[k].state # "done")
             => img = img0)

\* a call that raised because a worker failed while another chunk's estimate,
\* which would change the stack, was already returned
C10_Witness ==
    /\ Estimated
    /\ pc = "raised"
    /\ \E k \in DOMAIN futures : futures[k].state = "cancelled"
    /\ \E k \in DOMAIN futures :
          /\ futures[k].state = "done"
          /\ \E j \in 1..Len(chunked_rchs[k]) :
                \E z \in 0..(img.num_zplanes - 1) : \E x \in Pixels :
                   futures[k].value[j][z][x] > 0

\* ----------------------------------------------------- claims: registration
\* the translation, in y and x only, built from the shift estimated for
\* registration plane-set q
ExpectedTranslation(q) ==
    [i \in 1..3 |->
        IF i = 1 THEN 0 ELSE reg_img.data[<<0, 0>>][i] - reg_img.data[q][i]]

Registered(q) ==
    reg_pc = "returned" \/ (reg_pc \in {"register", "raised"} /\ Before(q, rpos))

\* C8: the transform applied to primary plane-set (r, c) is the one built from
\* the shift estimated for registration plane-set (r, c // k), and the lookup
\* succeeds for every (r, c) when the registration stack has the same round
\* count and at least ceil(C / k) channels.
C8_GroupLookup ==
    /\ \A q \in DOMAIN prim.data :
          Registered(q) =>
              /\ <<q[1], q[2] \div chs_per_reg>> \in DOMAIN reg_img.data
              /\ prim.data[q] =
                    [i \in 1..3 |->
                       prim0.data[q][i]
                       + ExpectedTranslation(<<q[1], q[2] \div chs_per_reg>>)[i]]
    /\ (/\ reg_img.num_rounds = prim.num_rounds
        /\ reg_img.num_chs >= CeilDiv(prim.num_chs, chs_per_reg))
       => reg_pc # "raised"

\* a registration that returned with chs_per_reg = 2 not dividing 3 primary
\* channels, two registration channels, and a plane-set actually moved
C8_Witness ==
    /\ reg_pc = "returned"
    /\ chs_per_reg = 2
    /\ prim.num_chs = 3
    /\ reg_img.num_chs = 2
    /\ prim.data[<<0, 2>>] # prim0.data[<<0, 2>>]

\* ------------------------------------------------------ claims: cli, export
IsPrefix(a, b) == Len(a) <= Len(b) /\ SubSeq(b, 1, Len(a)) = a

StageOrder ==
    <<"background", "high_pass", "deconvolve", "low_pass", "top_hat",
      "rolling_ball", "match_hist", "register", "clip_scale", "export">>

\* a configuration value enables its stage when it is present and not zero
Enables(v) == v \notin {<<>>, <<0>>}

StageEnabled(cfg, st) ==
    CASE st = "high_pass" -> Enables(cfg.high_sigma)
      [] st = "deconvolve" -> Enables(cfg.decon_sigma)
      [] st = "low_pass" -> Enables(cfg.low_sigma)
      [] st = "top_hat" -> Enables(cfg.wth_rad)
      [] st = "rolling_ball" -> Enables(cfg.rolling_rad)
      [] st = "match_hist" -> cfg.match_hist
      [] st = "register" -> cfg.aux_name # ""
      [] st = "clip_scale" -> ~cfg.rescale
      [] OTHER -> TRUE

\* the stages of StageOrder the configuration enables, in that order
ExpectedTrace(cfg) ==
    LET On(st) == StageEnabled(cfg, st) IN SelectSeq(StageOrder, On)

Finished(f) == f < fov \/ (f = fov /\ stage = "save_views")

\* C4: for every field of view and configuration the stages applied to the
\* primary stack are, in this order and each at most once, background
\* removal, high-pass, deconvolution, low-pass, white top-hat, rolling-ball,
\* histogram matching, registration, clip-and-scale, export; an optional
\* stage has run, once the field of view is exported, iff its configuration
\* value enables it (clip-and-scale iff rescale is false).
C4_StageOrder ==
    \A f \in 1..NumFovs :
        /\ IsPrefix(Trace(log, f, "primary"), ExpectedTrace(config))
        /\ Finished(f) => Trace(log, f, "primary") = ExpectedTrace(config)

\* a finished run in which a zero value kept one stage off while other
\* optional stages, registration among them, ran
C4_Witness ==
    /\ stage = "done"
    /\ config.high_sigma = <<0>>
    /\ config.decon_sigma = <<>>
    /\ config.low_sigma = <<3>>
    /\ config.aux_name # ""
    /\ ~config.rescale
    /\ Trace(log, NumFovs, "primary")
         = <<"background", "low_pass", "register", "clip_scale", "export">>

\* C5: with an anchor view configured, every stage applied to the primary
\* stack of a field of view has also been applied to the anchor stack of that
\* field of view when the anchor is exported.
C5_AnchorGetsEveryStage ==
    \A f \in 1..NumFovs :
        (\E i \in 1..Len(log) : log[i] = Event(f, "export", "anchor"))
        => \A i \in 1..Len(log) :
              (log[i].fov = f /\ log[i].view = "primary" /\ log[i].stage # "export")
              => \E j \in 1..Len(log) : log[j] = Event(f, log[i].stage, "anchor")

PlaneCount == shape[1] * shape[2] * shape[3]

WritesOf(view, f) ==
    {i \in 1..Len(writes) : writes[i].view = view /\ writes[i].fov = f}

\* C6: exporting a stack of R rounds, C channels and Z z-planes under view
\* name v for field of view f writes exactly R*C*Z files, one for each plane
\* (r, c, z), named <v>-<f>-c<c>-r<r>-z<z>, no two planes under one name.
C6_OneFilePerPlane ==
    \A f \in 1..NumFovs :
        \A n \in 1..Len(ViewNames(config)) :
            WritesOf(ViewNames(config)[n], f) # {} =>
                /\ Cardinality(WritesOf(ViewNames(config)[n], f)) = PlaneCount
                /\ Cardinality({writes[i].file : i \in WritesOf(ViewNames(config)[n], f)})
                      = PlaneCount
                /\ \A pl \in Index(shape[1], shape[2], shape[3]) :
                      \E i \in WritesOf(ViewNames(config)[n], f) :
                         /\ writes[i].plane = pl
                         /\ writes[i].file =
                              output_dir \o ViewNames(config)[n] \o "-" \o FovName(f)
                                \o "-c" \o ToString(pl[2]) \o "-r" \o ToString(pl[1])
                                \o "-z" \o ToString(pl[3]) \o ".tiff"
                         /\ writes[i].file \in DOMAIN files
                         /\ files[writes[i].file].plane = pl
                         /\ files[writes[i].file].view = ViewNames(config)[n]
                         /\ files[writes[i].file].fov = f

\* the primary stack of 1 round, 1 channel and 2 z-planes of the first field
\* of view exported as exactly two files, ending in z0 and z1
C6_Witness ==
    /\ shape = <<1, 1, 2>>
    /\ stage = "save_views"
    /\ fov = 1
    /\ DOMAIN files = {"3_processed/primary-fov_000-c0-r0-z0.tiff",
                       "3_processed/primary-fov_000-c0-r0-z1.tiff"}
    /\ Len(writes) = 2

\* ------------------------------------------- claims: field-of-view sequencing
\* field of view f has been fetched, or is already behind the loop
Started(f) == fov > f \/ (fov = f /\ stage # "fetch")

\* every plane of every view of field of view g has been written
Exported(g) ==
    \A n \in 1..Len(ViewNames(config)) :
        \A k \in 1..(shape[1] * shape[2] * shape[3]) :
            \E i \in 1..Len(writes) :
                /\ writes[i].fov = g
                /\ writes[i].file
                     = saveImg(output_dir, ViewNames(config)[n], g, shape, <<>>)[k].file

\* C11: fields of view are processed strictly one after another and a stage
\* error is fatal: nothing of a field of view is fetched or processed before
\* every view of every earlier field of view has been exported, and once a
\* processing stage of a field of view has raised, no plane of that or of a
\* later field of view has been or will be exported, no later field of view
\* is processed, and the metadata copy / hash refresh never runs.
C11_SequentialAndFatal ==
    /\ [](\A f \in 1..NumFovs : \A g \in 1..NumFovs :
             (Started(f) /\ g < f) => Exported(g))
    /\ [](stage = "aborted" =>
             /\ \A i \in 1..Len(writes) : writes[i].fov < fov
             /\ \A i \in 1..Len(log) : log[i].fov <= fov
             /\ \A name \in DOMAIN files : files[name].fov < fov
             /\ hashes = <<>>)
    /\ [][stage # "aborted"]_vars

\* the second field of view raised in the middle of its stages, after the
\* first one had been processed and exported
C11_Witness ==
    /\ stage = "aborted"
    /\ fov = 2
    /\ Exported(1)
    /\ Len(Trace(log, 2, "primary")) >= 2
    /\ Len(Trace(log, 1, "primary")) >= 3

====
